---- MODULE Spec2Model ----
(***************************************************************************)
(* Model of the SMS-marketing backend's campaign pipeline: the credit      *)
(* ledger (wallet.service), the campaign enqueue transaction, the dispatch *)
(* worker, the delivery-report webhook and the campaign finalizer.         *)
(*                                                                         *)
(* The store is PostgreSQL behind Prisma.  One awaited store call is one   *)
(* atomic step; a prisma.$transaction whose writes are guarded by a row    *)
(* lock is one atomic step from its first write to its commit.             *)
(***************************************************************************)
EXTENDS Integers, Sequences, FiniteSets, TLC

(***************************************************************************)
(* Bounds of the model.                                                    *)
(***************************************************************************)
MaxAmount == 2      \* largest amount passed to credit / debit / refund
MaxLedger == 3      \* ledger rows the API-level ledger specifications append
MaxBalance == 2     \* largest opening balance (one earlier purchase)
NumContacts == 2    \* members of the campaign's list
MaxTime == 1        \* the clock runs 0..MaxTime
MaxAttempts == 2    \* queue option "attempts" (QUEUE_ATTEMPTS, set by the environment)
MaxStalled == 1     \* redeliveries of a stalled job (at-least-once dispatch)
MaxEvents == 2       \* events in one delivery-report request
MaxVisits == 2       \* visits of the offer page counted per message
MaxPurchases == 3    \* Purchase rows created

Owners == {"o1", "o2"}
Procs == {"p1", "p2"}
Null == "null"       \* a null string column or local
None == 0 - 1        \* a null number, id or timestamp column

VARIABLES
  wallet,     \* Wallet.balance per owner (a missing row reads as balance 0)
  ledger,     \* CreditTransaction rows, in insertion order
  lastCall,   \* outcome of the most recent wallet.service call
  dc,         \* debitCredits callers: position and the balance they read
  campaign,   \* the Campaign row (id CampId, owner CampOwner)
  subscribed, \* contacts of the campaign's list with isSubscribed = true
  messages,   \* CampaignMessage rows; a row's id is its index
  jobs,       \* smsQueue: the jobs added, in order, each with the position
              \* and locals of the worker slot that holds it while it is active
  enq,        \* enqueueCampaign callers: position, locals and result
  now,        \* the clock read by new Date()
  provider,   \* per message, the number of sends the provider has accepted
  fin,        \* the finalizer call of GET /campaigns/:id/status: position
  req,        \* PUT and DELETE /campaigns/:id requests: position, locals, answer
  sched,      \* schedulerQueue: the job ids of the pending delayed jobs
  redemption, \* Redemption rows: per message id, the row or NoRow
  purchases,  \* Purchase rows, in insertion order
  idem,       \* the idempotency cache: the entries set, by cache key
  pur         \* POST /billing/purchase requests: position, locals, answer

ledgerVars == <<wallet, ledger, lastCall, dc>>
apiVars == <<req, sched>>
shopVars == <<redemption, purchases, idem, pur>>
pipelineVars ==
  <<campaign, subscribed, shopVars, apiVars, messages, jobs, enq, now, provider, fin>>
vars == <<wallet, ledger, lastCall, dc, campaign, subscribed, messages, jobs, enq, now,
          provider, fin, req, sched, redemption, purchases, idem, pur>>

Reqs == {"r1"}

Contacts == 1 .. NumContacts
CampId == 1
CampOwner == "o1"

(***************************************************************************)
(* Credit ledger: wallet.service                                           *)
(***************************************************************************)
Abs(n) == IF n < 0 THEN -n ELSE n

\* One CreditTransaction row.
Txn(o, type, amount, balanceAfter, reason, campaignId, messageId) ==
  [ownerId |-> o, type |-> type, amount |-> amount, balanceAfter |-> balanceAfter,
   reason |-> reason, campaignId |-> campaignId, messageId |-> messageId]

\* Mutant of AppendTxnAndUpdate: the sufficiency check is dropped.
AppendTxnAndUpdateNoCheck(w, l, o, delta, type, meta) ==
  LET newBalance == w[o] + delta IN
  [err |-> Null,
   wallet |-> [w EXCEPT ![o] = newBalance],
   ledger |-> Append(l, Txn(o, type, Abs(delta), newBalance,
                            meta.reason, meta.campaignId, meta.messageId))]

\* Mutant of AppendTxnAndUpdate: the row is inserted, the wallet write is lost.
AppendTxnAndUpdateRowOnly(w, l, o, delta, type, meta) ==
  LET newBalance == w[o] + delta IN
  IF newBalance < 0
  THEN [err |-> "INSUFFICIENT_CREDITS", wallet |-> w, ledger |-> l]
  ELSE [err |-> Null,
        wallet |-> w,
        ledger |-> Append(l, Txn(o, type, Abs(delta), newBalance,
                                 meta.reason, meta.campaignId, meta.messageId))]

\* Mutant of AppendTxnAndUpdate: the error is thrown after the writes.
AppendTxnAndUpdateThrowAfterWrite(w, l, o, delta, type, meta) ==
  LET newBalance == w[o] + delta IN
  [err |-> IF newBalance < 0 THEN "INSUFFICIENT_CREDITS" ELSE Null,
   wallet |-> [w EXCEPT ![o] = newBalance],
   ledger |-> Append(l, Txn(o, type, Abs(delta), newBalance,
                            meta.reason, meta.campaignId, meta.messageId))]

\* appendTxnAndUpdate: read the wallet, refuse a negative result, write the
\* balance and insert the row in one transaction.  The result carries the
\* thrown error (or Null) and the store after the call.
AppendTxnAndUpdate(w, l, o, delta, type, meta) ==
  LET newBalance == w[o] + delta IN
  IF newBalance < 0
  THEN [err |-> "INSUFFICIENT_CREDITS", wallet |-> w, ledger |-> l]
  ELSE [err |-> Null,
        wallet |-> [w EXCEPT ![o] = newBalance],
        ledger |-> Append(l, Txn(o, type, Abs(delta), newBalance,
                                 meta.reason, meta.campaignId, meta.messageId))]

InvalidAmount(w, l) == [err |-> "INVALID_AMOUNT", wallet |-> w, ledger |-> l]

\* The number 1.5 as an amount: numbers from here on stand for non-integers.
OneAndAHalf == 1001

\* Number.isInteger(amount)
NumberIsInteger(amount) == amount < OneAndAHalf

\* Mutant of debit: the amount is passed on unchecked.
debitUnchecked(w, l, o, amount, meta) ==
  AppendTxnAndUpdate(w, l, o, -amount, "debit", meta)

credit(w, l, o, amount, meta) ==
  IF ~NumberIsInteger(amount) \/ amount <= 0 THEN InvalidAmount(w, l)
  ELSE AppendTxnAndUpdate(w, l, o, amount, "credit", meta)

debit(w, l, o, amount, meta) ==
  IF ~NumberIsInteger(amount) \/ amount <= 0 THEN InvalidAmount(w, l)
  ELSE AppendTxnAndUpdate(w, l, o, -amount, "debit", meta)

refund(w, l, o, amount, meta) ==
  IF ~NumberIsInteger(amount) \/ amount <= 0 THEN InvalidAmount(w, l)
  ELSE AppendTxnAndUpdate(w, l, o, amount, "refund", meta)

NoMeta == [reason |-> Null, campaignId |-> None, messageId |-> None]

\* Signed sum of an owner's ledger rows: +amount for credit and refund,
\* -amount for debit.
RECURSIVE SignedSum(_, _)
SignedSum(l, o) ==
  IF l = <<>> THEN 0
  ELSE LET t == l[Len(l)]
           rest == SignedSum(SubSeq(l, 1, Len(l) - 1), o)
       IN IF t.ownerId # o THEN rest
          ELSE IF t.type = "debit" THEN rest - t.amount
          ELSE rest + t.amount

\* The integer amounts the callers pass; 0 is the non-positive one.
Amounts == 0 .. MaxAmount

IdleDc == [pc |-> "idle", owner |-> Null, units |-> 0, balance |-> 0]

NoCall == [op |-> Null, owner |-> Null, amount |-> 0, err |-> Null]

IdleEnq == [pc |-> "idle", camp |-> Null, startedAt |-> None, members |-> <<>>,
            units |-> 0, todo |-> <<>>, created |-> 0, enqueuedJobs |-> 0,
            result |-> Null, err |-> Null, resp |-> 0]

NoPid == <<>>        \* a null providerMessageId

\* A request that has not arrived; status is the campaign status it reads,
\* resp the HTTP status it answers with.
IdleReq ==
  [pc |-> "idle", route |-> Null, user |-> Null, body |-> Null, status |-> Null,
   resp |-> 0, answer |-> Null, updated |-> 0, logged |-> {}]

\* A purchase request that has not arrived.
IdlePur == [pc |-> "idle", key |-> Null, purchase |-> None, resp |-> 0, body |-> None]

\* No redemption, no purchase, an empty idempotency cache.
InitShop ==
  /\ redemption = <<>>
  /\ purchases = <<>>
  /\ idem = {}
  /\ pur = [p \in Procs |-> IdlePur]

InitApi ==
  /\ req = [r \in Reqs |-> IdleReq]
  /\ sched = {}
  /\ InitShop

\* A campaign as POST /campaigns creates it: draft, or scheduled when
\* scheduledAt is given; paused is the administrative state.
NewCampaign(status) ==
  [status |-> status, startedAt |-> None, finishedAt |-> None, total |-> None,
   name |-> "name0", scheduledAt |-> IF status = "scheduled" THEN 0 ELSE None]

\* The status that stands for a deleted Campaign row: reads find no row.
Deleted == "deleted"

\* The pipeline before any enqueue: no message, no job, callers idle.
InitPipeline(status, subs) ==
  /\ campaign = NewCampaign(status)
  /\ subscribed = subs
  /\ messages = <<>>
  /\ jobs = <<>>
  /\ enq = [p \in Procs |-> IdleEnq]
  /\ now = 0
  /\ provider = [c \in Contacts |-> 0]
  /\ fin = "idle"
  /\ InitApi

InitLedger ==
  /\ wallet = [o \in Owners |-> 0]
  /\ ledger = <<>>
  /\ lastCall = NoCall
  /\ dc = [p \in Procs |-> IdleDc]
  /\ InitPipeline("draft", Contacts)

\* A wallet.service call made through the API of the module.
LedgerCall(op, o, amount, r) ==
  /\ Len(r.ledger) <= MaxLedger
  /\ wallet' = r.wallet
  /\ ledger' = r.ledger
  /\ lastCall' = [op |-> op, owner |-> o, amount |-> amount, err |-> r.err]
  /\ UNCHANGED <<dc, pipelineVars>>

Credit(o, amount) == LedgerCall("credit", o, amount, credit(wallet, ledger, o, amount, NoMeta))
Debit(o, amount) == LedgerCall("debit", o, amount, debit(wallet, ledger, o, amount, NoMeta))
Refund(o, amount) == LedgerCall("refund", o, amount, refund(wallet, ledger, o, amount, NoMeta))

\* Calls with every integer amount by every owner, and with the
\* non-integer amount by the campaign's owner.
NextLedger ==
  \/ \E o \in Owners, amount \in Amounts :
       \/ Credit(o, amount)
       \/ Debit(o, amount)
       \/ Refund(o, amount)
  \/ \E amount \in {OneAndAHalf} :
       \/ Credit(CampOwner, amount)
       \/ Debit(CampOwner, amount)
       \/ Refund(CampOwner, amount)

SpecLedger == InitLedger /\ [][NextLedger]_vars

\* C1: for every owner, after any sequence of credit/debit/refund calls
\* (successful or failing) the wallet balance equals the signed sum of the
\* owner's ledger rows, and the balance is never below 0.
CreditConservation ==
  \A o \in Owners : wallet[o] = SignedSum(ledger, o) /\ wallet[o] >= 0

\* C1 witness: a debit has failed for insufficient credits after rows of all
\* three types were appended.
CreditConservationWitness ==
  /\ lastCall.op = "debit" /\ lastCall.err = "INSUFFICIENT_CREDITS"
  /\ \E i, j, k \in 1 .. Len(ledger) :
       /\ ledger[i].type = "credit" /\ ledger[j].type = "debit" /\ ledger[k].type = "refund"
       /\ ledger[i].ownerId = lastCall.owner
       /\ ledger[j].ownerId = lastCall.owner
       /\ ledger[k].ownerId = lastCall.owner

(***************************************************************************)
(* debitCredits: the enqueue service's own debit.  The wallet is read by   *)
(* one store call and written by a later transaction that holds the       *)
(* balance computed from that read; other calls run between the two.       *)
(***************************************************************************)
\* The read and the sufficiency check; enough credits, so the caller goes on
\* to the write holding the balance it read.
DebitCreditsRead(p, o, units) ==
  /\ dc[p].pc = "idle"
  /\ wallet[o] >= units
  /\ dc' = [dc EXCEPT ![p] = [pc |-> "write", owner |-> o, units |-> units,
                                balance |-> wallet[o]]]
  /\ UNCHANGED <<wallet, ledger, lastCall, pipelineVars>>

\* The read finds balance < units: the call throws with status 402.
DebitCreditsThrow(p, o, units) ==
  /\ dc[p].pc = "idle"
  /\ wallet[o] < units
  /\ lastCall' = [op |-> "debitCredits", owner |-> o, amount |-> units, err |-> "402"]
  /\ UNCHANGED <<wallet, ledger, dc, pipelineVars>>

\* The store after debitCredits' transaction: the balance computed from the
\* earlier read is written, and the debit row inserted with it.
DebitCreditsCommit(w, l, o, units, balance) ==
  LET newBal == balance - units IN
  [wallet |-> [w EXCEPT ![o] = newBal],
   ledger |-> Append(l, Txn(o, "debit", units, newBal, "campaign enqueue", None, None))]

DebitCreditsWrite(p) ==
  /\ dc[p].pc = "write"
  /\ Len(ledger) < MaxLedger
  /\ LET r == DebitCreditsCommit(wallet, ledger, dc[p].owner, dc[p].units, dc[p].balance) IN
       /\ wallet' = r.wallet
       /\ ledger' = r.ledger
  /\ lastCall' = [op |-> "debitCredits", owner |-> dc[p].owner,
                  amount |-> dc[p].units, err |-> Null]
  /\ dc' = [dc EXCEPT ![p] = IdleDc]
  /\ UNCHANGED pipelineVars

NextLedgerConc ==
  \/ \E o \in Owners, amount \in 1 .. MaxAmount :
       \/ Credit(o, amount)
       \/ Debit(o, amount)
       \/ Refund(o, amount)
  \/ \E p \in Procs, o \in Owners, units \in 1 .. MaxAmount :
       \/ DebitCreditsRead(p, o, units)
       \/ DebitCreditsThrow(p, o, units)
  \/ \E p \in Procs : DebitCreditsWrite(p)

SpecLedgerConc == InitLedger /\ [][NextLedgerConc]_vars

\* The owner's rows, in insertion order.
OwnerRows(l, o) == SelectSeq(l, LAMBDA t : t.ownerId = o)

Signed(t) == IF t.type = "debit" THEN -t.amount ELSE t.amount

\* C2: concurrent credit/debit/refund calls on one owner leave the store as
\* some serial order of them would: the owner's rows form a serial history
\* (each balanceAfter is the previous one plus the signed amount, never
\* below 0) and the wallet holds the last balanceAfter.
ConcurrentLedgerSerial ==
  \A o \in Owners :
    LET rows == OwnerRows(ledger, o) IN
    /\ \A i \in 1 .. Len(rows) :
         /\ rows[i].balanceAfter >= 0
         /\ rows[i].balanceAfter =
              (IF i = 1 THEN 0 ELSE rows[i - 1].balanceAfter) + Signed(rows[i])
    /\ wallet[o] = (IF rows = <<>> THEN 0 ELSE rows[Len(rows)].balanceAfter)
    /\ wallet[o] >= 0

(***************************************************************************)
(* enqueueCampaign (campaignEnqueue.service.js, the version built on       *)
(* wallet.service): a transaction that takes the campaign by a conditional *)
(* update and reads the members, then the debit, then the message insert,  *)
(* then one queue.add per message.                                         *)
(***************************************************************************)
Enqueueable == {"draft", "scheduled", "paused"}

\* The members of the campaign's list whose contact is subscribed, by id.
RECURSIVE SeqOf(_)
SeqOf(S) ==
  IF S = {} THEN <<>>
  ELSE LET x == CHOOSE x \in S : \A y \in S : x <= y
       IN <<x>> \o SeqOf(S \ {x})

\* Mutant of Members: the query without the isSubscribed condition.
MembersUnfiltered == SeqOf(Contacts)

Members == SeqOf(subscribed)

InvalidStatus(status) ==
  CASE status = "sending" -> "invalid_status:sending"
    [] status = "completed" -> "invalid_status:completed"
    [] status = "failed" -> "invalid_status:failed"
    [] OTHER -> "invalid_status"

\* A wallet with an opening balance bought earlier (one credit row).
InitWallet(b) ==
  /\ wallet = [o \in Owners |-> IF o = CampOwner THEN b ELSE 0]
  /\ ledger = IF b > 0 THEN <<Txn(CampOwner, "credit", b, b, "purchase", None, None)>>
              ELSE <<>>
  /\ lastCall = NoCall
  /\ dc = [p \in Procs |-> IdleDc]

\* A CampaignMessage row as enqueue inserts it.
NewMessage(id, contact) ==
  [id |-> id, campaignId |-> CampId, contactId |-> contact, status |-> "queued",
   providerMessageId |-> NoPid, sentAt |-> None, deliveredAt |-> None,
   failedAt |-> None, error |-> Null]

\* A job as the queue stores it; pc and pid are the position and the
\* provider's messageId of the worker slot that runs it.
NewJob(jobId, messageId) ==
  [jobId |-> jobId, messageId |-> messageId, state |-> "waiting", attempts |-> 0,
   stalled |-> 0, pc |-> "idle", pid |-> NoPid]

\* A queue that adds every job it is given, whatever its job id.
QueueAddNoJobId(q, jobId, messageId) == Append(q, NewJob(jobId, messageId))

\* smsQueue.add under a job id: a job id the queue already holds is not added again.
QueueAdd(q, jobId, messageId) ==
  IF \E i \in 1 .. Len(q) : q[i].jobId = jobId THEN q
  ELSE Append(q, NewJob(jobId, messageId))

MessageJobId(id) == <<"message", id>>

\* findUnique and the status check.
EnqRead(p) ==
  /\ enq[p].pc \in {"idle", "call"}
  /\ enq' = [enq EXCEPT ![p] =
       IF campaign.status = Deleted
       THEN [@ EXCEPT !.pc = "done", !.result = "not_found"]
       ELSE IF campaign.status \in Enqueueable
       THEN [@ EXCEPT !.pc = "lock", !.camp = campaign.status]
       ELSE [@ EXCEPT !.pc = "done", !.camp = campaign.status,
                      !.result = InvalidStatus(campaign.status)]]
  /\ UNCHANGED <<ledgerVars, campaign, subscribed, shopVars, apiVars, messages, jobs, now, provider, fin>>

\* The campaign after the conditional update to sending.
LockCampaign(c, t) == [c EXCEPT !.status = "sending", !.startedAt = t]

\* updateMany where status in (draft, scheduled, paused), the members query,
\* and the commit of the transaction.
EnqLock(p) ==
  /\ enq[p].pc = "lock"
  /\ IF campaign.status \in Enqueueable
     THEN IF Members = <<>>
          THEN /\ campaign' = [LockCampaign(campaign, now) EXCEPT
                                 !.status = "failed", !.finishedAt = now, !.total = 0]
               /\ enq' = [enq EXCEPT ![p].pc = "done", ![p].result = "no_recipients"]
          ELSE /\ campaign' = LockCampaign(campaign, now)
               /\ enq' = [enq EXCEPT ![p].pc = "debit", ![p].members = Members]
     ELSE /\ campaign' = campaign
          /\ enq' = [enq EXCEPT ![p].pc = "done", ![p].result = "already_sending"]
  /\ UNCHANGED <<ledgerVars, subscribed, shopVars, apiVars, messages, jobs, now, provider, fin>>

EnqueueMeta == [reason |-> "enqueue:campaign", campaignId |-> CampId, messageId |-> None]

\* debit(ownerId, members.length, ...): on an error the caller goes to the revert.
EnqDebit(p) ==
  /\ enq[p].pc = "debit"
  /\ LET r == debit(wallet, ledger, CampOwner, Len(enq[p].members), EnqueueMeta) IN
       /\ wallet' = r.wallet
       /\ ledger' = r.ledger
       /\ lastCall' = [op |-> "debit", owner |-> CampOwner,
                       amount |-> Len(enq[p].members), err |-> r.err]
       /\ enq' = [enq EXCEPT ![p].pc = IF r.err = Null THEN "create" ELSE "revert",
                             ![p].err = r.err]
  /\ UNCHANGED <<dc, campaign, subscribed, shopVars, apiVars, messages, jobs, now, provider, fin>>

\* debit failing with a store error: its transaction writes nothing and
\* the caller goes to the revert.
EnqDebitFails(p) ==
  /\ enq[p].pc = "debit"
  /\ enq' = [enq EXCEPT ![p].pc = "revert", ![p].err = "STORE_ERROR"]
  /\ UNCHANGED <<ledgerVars, campaign, subscribed, shopVars, apiVars, messages, jobs, now,
                 provider, fin>>

\* The campaign after the catch branch's update.
RevertCampaign(c) == [c EXCEPT !.status = "draft", !.startedAt = None]

\* catch (e): the campaign is written back; insufficient_credits is
\* returned, any other error thrown again.
EnqRevert(p) ==
  /\ enq[p].pc = "revert"
  /\ IF campaign.status = Deleted
     THEN /\ campaign' = campaign        \* campaign.update finds no row and throws
          /\ enq' = [enq EXCEPT ![p].pc = "done", ![p].result = "throws"]
     ELSE /\ campaign' = RevertCampaign(campaign)
          /\ enq' = [enq EXCEPT ![p].pc = "done",
                                ![p].result = IF enq[p].err = "INSUFFICIENT_CREDITS"
                                              THEN "insufficient_credits" ELSE "throws"]
  /\ UNCHANGED <<ledgerVars, subscribed, shopVars, apiVars, messages, jobs, now, provider, fin>>

\* The rows createMany inserts for the members read in the transaction.
NewMessages(msgs, members) ==
  [i \in 1 .. Len(members) |-> NewMessage(Len(msgs) + i, members[i])]

\* $transaction([campaign.update total, campaignMessage.createMany]).
EnqCreate(p) ==
  /\ enq[p].pc = "create"
  /\ campaign.status # Deleted
  /\ campaign' = [campaign EXCEPT !.total = Len(enq[p].members)]
  /\ messages' = messages \o NewMessages(messages, enq[p].members)
  /\ enq' = [enq EXCEPT ![p].pc = "find", ![p].created = Len(enq[p].members)]
  /\ UNCHANGED <<ledgerVars, subscribed, shopVars, apiVars, jobs, now, provider, fin>>

\* The same transaction failing (a store error): nothing of it is written and
\* the error leaves enqueueCampaign, which has no handler around it.
EnqCreateFails(p) ==
  /\ enq[p].pc = "create"
  /\ enq' = [enq EXCEPT ![p].pc = "done", ![p].result = "throws"]
  /\ UNCHANGED <<ledgerVars, campaign, subscribed, shopVars, apiVars, messages, jobs, now, provider, fin>>

\* The ids of the campaign's rows with status queued and no providerMessageId.
QueuedIds(msgs) ==
  SeqOf({i \in 1 .. Len(msgs) :
           /\ msgs[i].campaignId = CampId
           /\ msgs[i].status = "queued"
           /\ msgs[i].providerMessageId = NoPid})

OkResult == "ok"

\* findMany of the rows to enqueue; with none the call returns at once.
EnqFind(p) ==
  /\ enq[p].pc = "find"
  /\ LET todo == QueuedIds(messages) IN
       enq' = [enq EXCEPT ![p] =
         IF todo = <<>> THEN [@ EXCEPT !.pc = "done", !.result = OkResult]
         ELSE [@ EXCEPT !.pc = "jobs", !.todo = todo]]
  /\ UNCHANGED <<ledgerVars, campaign, subscribed, shopVars, apiVars, messages, jobs, now, provider, fin>>

\* One smsQueue.add of the loop; after the last the call returns ok.
EnqAddJob(p) ==
  /\ enq[p].pc = "jobs"
  /\ LET id == Head(enq[p].todo)
         rest == Tail(enq[p].todo) IN
       /\ jobs' = QueueAdd(jobs, MessageJobId(id), id)
       /\ enq' = [enq EXCEPT ![p] =
            [@ EXCEPT !.todo = rest, !.enqueuedJobs = @ + 1,
                      !.pc = IF rest = <<>> THEN "done" ELSE "jobs",
                      !.result = IF rest = <<>> THEN OkResult ELSE Null]]
  /\ UNCHANGED <<ledgerVars, campaign, subscribed, shopVars, apiVars, messages, now, provider, fin>>

EnqueueStep(p) ==
  \/ EnqRead(p)
  \/ EnqLock(p)
  \/ EnqDebit(p)
  \/ EnqDebitFails(p)
  \/ EnqRevert(p)
  \/ EnqCreate(p)
  \/ EnqCreateFails(p)
  \/ EnqFind(p)
  \/ EnqAddJob(p)

InitEnqueue ==
  \E b \in 0 .. MaxBalance, status \in Enqueueable, subs \in SUBSET Contacts :
    /\ InitWallet(b)
    /\ InitPipeline(status, subs)

NextEnqueue == \E p \in Procs : EnqueueStep(p)

SpecEnqueue == InitEnqueue /\ [][NextEnqueue]_vars

\* C4: when the debit inside enqueueCampaign fails for insufficient credits,
\* the call returns insufficient_credits and leaves the campaign in the
\* status it read before the call (draft, scheduled or paused).
RevertRestoresStatus ==
  [][\A p \in Procs :
       (enq[p].pc = "revert" /\ enq'[p].pc = "done")
         => /\ enq'[p].result = "insufficient_credits"
            /\ campaign'.status = enq[p].camp]_vars

\* The steps of a call on its way to insufficient_credits.
FailingCallStep(p) ==
  \/ enq[p].pc = "idle" /\ enq'[p].pc = "lock"
  \/ enq[p].pc = "lock" /\ enq'[p].pc = "debit"
  \/ enq[p].pc = "debit" /\ enq'[p].pc = "revert"
  \/ enq[p].pc = "revert" /\ enq'[p].pc = "done"

\* C5: a call whose debit fails for insufficient credits creates no
\* CampaignMessage row, no ledger entry and no dispatch task, and leaves the
\* wallet balance unchanged: none of its steps writes any of the four.
FailedEnqueueWritesNothing ==
  [][\A p \in Procs :
       FailingCallStep(p) => UNCHANGED <<messages, ledger, wallet, jobs>>]_vars

\* C5 witness: a call has returned insufficient_credits.
FailedEnqueueWitness ==
  \E p \in Procs :
    /\ enq[p].pc = "done"
    /\ enq[p].result = "insufficient_credits"
    /\ lastCall.err = "INSUFFICIENT_CREDITS"
    /\ messages = <<>> /\ jobs = <<>>

\* C11: a contact of the campaign's list whose isSubscribed is false when the
\* audience is resolved has no CampaignMessage of the campaign: every row's
\* contact is a subscribed one (every contact in Contacts is a member of the
\* list).
UnsubscribedGetNoMessage ==
  \A c \in Contacts \ subscribed :
    \A i \in 1 .. Len(messages) :
      messages[i].campaignId = CampId => messages[i].contactId # c

\* C11 witness: a call has succeeded and created rows while a member of the
\* list is unsubscribed.
UnsubscribedWitness ==
  /\ Contacts \ subscribed # {}
  /\ messages # <<>>
  /\ \E p \in Procs : enq[p].pc = "done" /\ enq[p].result = OkResult

(***************************************************************************)
(* enqueueCampaign, the version that debits inside its transaction         *)
(* callback: the status is checked on a plain read; the debit, the update  *)
(* to sending, the message inserts and addBulk follow.                     *)
(***************************************************************************)
\* findUnique with the memberships, the status check, the recipients.
TxEnqRead(p) ==
  /\ enq[p].pc = "idle"
  /\ enq' = [enq EXCEPT ![p] =
       IF campaign.status \notin Enqueueable
       THEN [@ EXCEPT !.pc = "done", !.camp = campaign.status, !.result = "not_enqueueable"]
       ELSE IF Members = <<>>
       THEN [@ EXCEPT !.pc = "done", !.camp = campaign.status,
                      !.result = "no_valid_recipients"]
       ELSE [@ EXCEPT !.pc = "txdebit", !.camp = campaign.status, !.members = Members]]
  /\ UNCHANGED <<ledgerVars, campaign, subscribed, shopVars, apiVars, messages, jobs, now, provider, fin>>

\* debit(campaign.ownerId, recipients.length, ...), on the service's own
\* connection; its error leaves the callback, and the call throws.
TxEnqDebit(p) ==
  /\ enq[p].pc = "txdebit"
  /\ LET r == debit(wallet, ledger, CampOwner, Len(enq[p].members), EnqueueMeta) IN
       /\ wallet' = r.wallet
       /\ ledger' = r.ledger
       /\ lastCall' = [op |-> "debit", owner |-> CampOwner,
                       amount |-> Len(enq[p].members), err |-> r.err]
       /\ enq' = [enq EXCEPT ![p] =
            IF r.err = Null THEN [@ EXCEPT !.pc = "txwrite"]
            ELSE [@ EXCEPT !.pc = "done", !.result = "throws"]]
  /\ UNCHANGED <<dc, campaign, subscribed, shopVars, apiVars, messages, jobs, now, provider, fin>>

\* addBulk: jobs without a job id of the caller's; the queue numbers them.
RECURSIVE QueueAddBulk(_, _)
QueueAddBulk(q, ids) ==
  IF ids = <<>> THEN q
  ELSE QueueAddBulk(QueueAdd(q, <<"auto", Len(q) + 1>>, Head(ids)), Tail(ids))

\* tx.campaign.update to sending, one tx.campaignMessage.create per
\* recipient, addBulk of their jobs, and the commit.
TxEnqWrite(p) ==
  /\ enq[p].pc = "txwrite"
  /\ LET rows == NewMessages(messages, enq[p].members) IN
       /\ campaign' = [LockCampaign(campaign, now) EXCEPT !.total = Len(enq[p].members)]
       /\ messages' = messages \o rows
       /\ jobs' = QueueAddBulk(jobs, [i \in 1 .. Len(rows) |-> rows[i].id])
       /\ enq' = [enq EXCEPT ![p].pc = "done", ![p].result = OkResult,
                             ![p].created = Len(rows), ![p].enqueuedJobs = Len(rows)]
  /\ UNCHANGED <<ledgerVars, subscribed, shopVars, apiVars, now, provider, fin>>

NextTxEnqueue ==
  \E p \in Procs :
    \/ TxEnqRead(p)
    \/ TxEnqDebit(p)
    \/ TxEnqWrite(p)

SpecTxEnqueue == InitEnqueue /\ [][NextTxEnqueue]_vars

(***************************************************************************)
(* enqueueCampaign, the version built on debitCredits: the campaign is     *)
(* read with its memberships, the recipients' texts are rendered and       *)
(* priced by smsParts, debitCredits takes the credits, and one transaction *)
(* sets the campaign to sending and inserts the rows.  No job is added.    *)
(***************************************************************************)
\* Lengths of a rendered text: one part, and the first length of two parts.
TextLens == {160, 161}

\* smsParts: Math.ceil(len / 153) above 160 characters.
smsParts(len) == IF len <= 160 THEN 1 ELSE (len + 152) \div 153

\* findUnique with the memberships, the recipients, the rendered messages of
\* length len each and their credits.
PlainEnqRead(p, len) ==
  /\ enq[p].pc = "idle"
  /\ enq' = [enq EXCEPT ![p] =
       IF Members = <<>>
       THEN [@ EXCEPT !.pc = "done", !.camp = campaign.status,
                      !.result = "no_valid_recipients"]
       ELSE [@ EXCEPT !.pc = "dcread", !.camp = campaign.status,
                      !.startedAt = campaign.startedAt, !.members = Members,
                      !.units = Len(Members) * smsParts(len)]]
  /\ UNCHANGED <<ledgerVars, campaign, subscribed, shopVars, apiVars, messages, jobs, now, provider, fin>>

\* debitCredits, the wallet read: with balance < units it throws status 402,
\* which leaves enqueueCampaign.
PlainEnqDebitRead(p) ==
  /\ enq[p].pc = "dcread"
  /\ IF wallet[CampOwner] < enq[p].units
     THEN /\ enq' = [enq EXCEPT ![p].pc = "done", ![p].result = "throws:402"]
          /\ lastCall' = [op |-> "debitCredits", owner |-> CampOwner,
                          amount |-> enq[p].units, err |-> "402"]
          /\ dc' = dc
     ELSE /\ enq' = [enq EXCEPT ![p].pc = "dcwrite"]
          /\ dc' = [dc EXCEPT ![p] = [pc |-> "write", owner |-> CampOwner,
                                        units |-> enq[p].units,
                                        balance |-> wallet[CampOwner]]]
          /\ lastCall' = lastCall
  /\ UNCHANGED <<wallet, ledger, campaign, subscribed, shopVars, apiVars, messages, jobs, now, provider, fin>>

\* debitCredits, the transaction that writes the balance and the debit row.
PlainEnqDebitWrite(p) ==
  /\ enq[p].pc = "dcwrite"
  /\ LET r == DebitCreditsCommit(wallet, ledger, CampOwner, dc[p].units, dc[p].balance) IN
       /\ wallet' = r.wallet
       /\ ledger' = r.ledger
  /\ lastCall' = [op |-> "debitCredits", owner |-> CampOwner,
                  amount |-> dc[p].units, err |-> Null]
  /\ dc' = [dc EXCEPT ![p] = IdleDc]
  /\ enq' = [enq EXCEPT ![p].pc = "write"]
  /\ UNCHANGED <<campaign, subscribed, shopVars, apiVars, messages, jobs, now, provider, fin>>

\* The campaign after the transaction's update; startedAt is the value read
\* with the campaign, or the time of the call.
StartSending(c, startedAt, total, t) ==
  [c EXCEPT !.status = "sending",
            !.startedAt = IF startedAt # None THEN startedAt ELSE t,
            !.total = total]

\* $transaction: tx.campaign.update to sending, one tx.campaignMessage.create
\* per recipient; the call returns ok.
PlainEnqWrite(p) ==
  /\ enq[p].pc = "write"
  /\ campaign' = StartSending(campaign, enq[p].startedAt, Len(enq[p].members), now)
  /\ messages' = messages \o NewMessages(messages, enq[p].members)
  /\ enq' = [enq EXCEPT ![p].pc = "done", ![p].result = OkResult,
                        ![p].created = Len(enq[p].members)]
  /\ UNCHANGED <<ledgerVars, subscribed, shopVars, apiVars, jobs, now, provider, fin>>

NextPlainEnqueue ==
  \E p \in Procs :
    \/ \E len \in TextLens : PlainEnqRead(p, len)
    \/ PlainEnqDebitRead(p)
    \/ PlainEnqDebitWrite(p)
    \/ PlainEnqWrite(p)

SpecPlainEnqueue == InitEnqueue /\ [][NextPlainEnqueue]_vars

\* The statuses enqueue is not legal from.
NotEnqueueable == {"sending", "completed", "failed"}

\* C14: a call of enqueueCampaign that finds the campaign in sending,
\* completed or failed changes no campaign, message, wallet, ledger or queue
\* state in any of its steps, and does not return ok.
NotEnqueueableCallChangesNothing ==
  [][\A p \in Procs :
       (enq'[p] # enq[p] /\ enq'[p].camp \in NotEnqueueable)
         => /\ UNCHANGED <<campaign, messages, wallet, ledger, jobs>>
            /\ enq'[p].result # OkResult]_vars

RowsOfContact(c) ==
  {i \in 1 .. Len(messages) : messages[i].campaignId = CampId /\ messages[i].contactId = c}

EnqueueDebits ==
  {i \in 1 .. Len(ledger) : ledger[i].type = "debit" /\ ledger[i].campaignId = CampId}

\* C3: two enqueueCampaign calls that both found the campaign in draft (they
\* run concurrently) leave one set of CampaignMessage rows (one per
\* recipient) and one debit, and once both have returned one has succeeded
\* and the other got already_sending.
NoDoubleMaterialization ==
  (\A p \in Procs : enq[p].camp = "draft") =>
    /\ \A c \in Contacts : Cardinality(RowsOfContact(c)) <= 1
    /\ Cardinality(EnqueueDebits) <= 1
    /\ ((\A p \in Procs : enq[p].pc = "done") /\ (\E p \in Procs : enq[p].result = OkResult))
         => \E p \in Procs :
              /\ enq[p].result = OkResult
              /\ \A q \in Procs \ {p} : enq[q].result = "already_sending"

\* The CampaignMessage rows of the campaign.
CampaignRows ==
  {i \in 1 .. Len(messages) : messages[i].campaignId = CampId}

\* C12: once every enqueueCampaign call has returned or thrown, the
\* campaign's enqueue debit is in the ledger exactly when the campaign's
\* CampaignMessage rows exist.
DebitIffMessages ==
  (\A p \in Procs : enq[p].pc \in {"idle", "done"}) =>
    (EnqueueDebits # {} <=> CampaignRows # {})

(***************************************************************************)
(* Dispatch worker (sms.worker.js, the version with isRetryable, refund    *)
(* and maybeCompleteCampaign).                                             *)
(***************************************************************************)
\* err.status of a failed send; 0 stands for no status (network, timeout).
ErrStatuses == {0, 400, 429, 503}

\* isRetryable without the 429 line.
isRetryableAbsentIsHard(status) ==
  IF status = 0 THEN FALSE
  ELSE IF status >= 500 THEN TRUE
  ELSE IF status = 429 THEN TRUE
  ELSE FALSE

isRetryableNo429(status) ==
  IF status = 0 THEN TRUE
  ELSE IF status >= 500 THEN TRUE
  ELSE FALSE

isRetryable(status) ==
  IF status = 0 THEN TRUE
  ELSE IF status >= 500 THEN TRUE
  ELSE IF status = 429 THEN TRUE
  ELSE FALSE

\* The job when its worker slot lets go of it.
Release(job, state) == [job EXCEPT !.state = state, !.pc = "idle", !.pid = NoPid]

\* The job when a worker takes it for one more attempt.
Take(job, pc) == [job EXCEPT !.state = "active", !.attempts = @ + 1, !.pc = pc]

\* The worker takes a waiting job, loads its message and calls the provider,
\* which accepts the send and assigns a fresh messageId.
WorkerSend(j) ==
  /\ jobs[j].state = "waiting"
  /\ LET m == jobs[j].messageId IN
       /\ provider' = [provider EXCEPT ![m] = @ + 1]
       /\ jobs' = [jobs EXCEPT ![j] = [Take(@, "record") EXCEPT !.pid = <<m, provider[m] + 1>>]]
  /\ UNCHANGED <<ledgerVars, campaign, subscribed, shopVars, apiVars, messages, enq, now, fin>>

\* The row after the success branch's update.
MarkSent(m, pid, t) ==
  [m EXCEPT !.providerMessageId = pid, !.sentAt = t, !.status = "sent"]

WorkerRecord(j) ==
  /\ jobs[j].pc = "record"
  /\ messages' = [messages EXCEPT ![jobs[j].messageId] = MarkSent(@, jobs[j].pid, now)]
  /\ jobs' = [jobs EXCEPT ![j].pc = "count"]
  /\ UNCHANGED <<ledgerVars, campaign, subscribed, shopVars, apiVars, enq, now, provider, fin>>

\* The row after the catch branch's update.
MarkFailure(m, retryable, t) ==
  [m EXCEPT !.failedAt = IF retryable THEN None ELSE t,
            !.status = IF retryable THEN "queued" ELSE "failed",
            !.error = "send_failed"]

\* The queue's handling of a thrown job: another attempt while attempts remain.
AfterThrow(job) ==
  IF job.attempts < MaxAttempts THEN "waiting" ELSE "failed"

\* The worker takes a waiting job and the provider call fails with status:
\* catch (e) updates the row, then rethrows a retryable error (the queue
\* decides on another attempt) or goes on to the refund of a hard failure.
WorkerFail(j, status) ==
  /\ jobs[j].state = "waiting"
  /\ LET retryable == isRetryable(status)
         taken == Take(jobs[j], "catch") IN
       /\ messages' = [messages EXCEPT ![jobs[j].messageId] = MarkFailure(@, retryable, now)]
       /\ jobs' = [jobs EXCEPT ![j] =
            IF retryable THEN Release(taken, AfterThrow(taken))
            ELSE [taken EXCEPT !.pc = "refund"]]
  /\ UNCHANGED <<ledgerVars, campaign, subscribed, shopVars, apiVars, enq, now, provider, fin>>

HardFailMeta(id) == [reason |-> "hardfail:message", campaignId |-> CampId,
                     messageId |-> id]

\* refund(ownerId, 1, { reason: hardfail:message:<id>, ... }).
WorkerRefund(j) ==
  /\ jobs[j].pc = "refund"
  /\ LET r == refund(wallet, ledger, CampOwner, 1, HardFailMeta(jobs[j].messageId)) IN
       /\ wallet' = r.wallet
       /\ ledger' = r.ledger
       /\ lastCall' = [op |-> "refund", owner |-> CampOwner, amount |-> 1, err |-> r.err]
  /\ jobs' = [jobs EXCEPT ![j].pc = "count"]
  /\ UNCHANGED <<dc, campaign, subscribed, shopVars, apiVars, messages, enq, now, provider, fin>>

\* A refund failure that is thrown on: the job is handed back to the queue.
WorkerRefundFailsRethrown(j) ==
  /\ jobs[j].pc = "refund"
  /\ jobs' = [jobs EXCEPT ![j] = Release(@, AfterThrow(@))]
  /\ UNCHANGED <<ledgerVars, campaign, subscribed, shopVars, apiVars, messages, enq, now,
                 provider, fin>>

\* refund rejecting (a store error, nothing of its transaction is written):
\* catch (rf) logs a warning and the worker goes on to maybeCompleteCampaign.
WorkerRefundFails(j) ==
  /\ jobs[j].pc = "refund"
  /\ jobs' = [jobs EXCEPT ![j].pc = "count"]
  /\ UNCHANGED <<ledgerVars, campaign, subscribed, shopVars, apiVars, messages, enq, now,
                 provider, fin>>

\* maybeCompleteCampaign's count: the campaign's rows with status queued.
RemainingQueued(msgs) ==
  Cardinality({i \in 1 .. Len(msgs) :
                 msgs[i].campaignId = CampId /\ msgs[i].status = "queued"})

\* maybeCompleteCampaign, the count; with rows left the job completes.
WorkerCount(j) ==
  /\ jobs[j].pc = "count"
  /\ jobs' = [jobs EXCEPT ![j] =
       IF RemainingQueued(messages) = 0 THEN [@ EXCEPT !.pc = "complete"]
       ELSE Release(@, "completed")]
  /\ UNCHANGED <<ledgerVars, campaign, subscribed, shopVars, apiVars, messages, enq, now, provider, fin>>

\* The campaign after maybeCompleteCampaign's update.
CompleteCampaign(c, t) == [c EXCEPT !.status = "completed", !.finishedAt = t]

\* maybeCompleteCampaign, the update; the job completes.
WorkerComplete(j) ==
  /\ jobs[j].pc = "complete"
  /\ campaign' = CompleteCampaign(campaign, now)
  /\ jobs' = [jobs EXCEPT ![j] = Release(@, "completed")]
  /\ UNCHANGED <<ledgerVars, subscribed, shopVars, apiVars, messages, enq, now, provider, fin>>

\* At-least-once dispatch: a worker that stops in mid-job leaves a stalled
\* job, which the queue hands out again.
WorkerStall(j) ==
  /\ jobs[j].state = "active"
  /\ jobs[j].stalled < MaxStalled
  /\ jobs' = [jobs EXCEPT ![j] = [Release(@, "waiting") EXCEPT !.stalled = @ + 1]]
  /\ UNCHANGED <<ledgerVars, campaign, subscribed, shopVars, apiVars, messages, enq, now, provider, fin>>

WorkerStep(j) ==
  \/ WorkerSend(j)
  \/ WorkerRecord(j)
  \/ \E status \in ErrStatuses : WorkerFail(j, status)
  \/ WorkerRefund(j)
  \/ WorkerRefundFails(j)
  \/ WorkerCount(j)
  \/ WorkerComplete(j)
  \/ WorkerStall(j)

(***************************************************************************)
(* Delivery reports: POST /webhooks/mitto/dlr                              *)
(***************************************************************************)
\* String(s || '').toLowerCase(), on the status strings the model sends.
ToLowerCase(s) ==
  CASE s = "DELIVRD" -> "delivrd"
    [] s = "Failed" -> "failed"
    [] OTHER -> s

mapStatus(s) ==
  LET v == ToLowerCase(s) IN
  IF v \in {"delivered", "delivrd", "completed", "ok"} THEN "delivered"
  ELSE IF v \in {"failed", "undelivered", "expired", "rejected", "error"} THEN "failed"
  ELSE IF v \in {"queued", "accepted", "submitted", "enroute", "sent"} THEN "sent"
  ELSE "unknown"

RawStatuses == {"DELIVRD", "Failed", "enroute", "bogus"}

\* ev.doneAt || ev.timestamp || new Date().toISOString()
DoneAt(e, t) == IF e.doneAt # None THEN e.doneAt ELSE t

\* The row after the updateMany of the event's branch.
ApplyToRow(m, e, t) ==
  LET mapped == mapStatus(e.status) IN
  IF mapped = "delivered"
  THEN [m EXCEPT !.status = "delivered", !.deliveredAt = DoneAt(e, t)]
  ELSE IF mapped = "failed"
  THEN [m EXCEPT !.status = "failed", !.failedAt = DoneAt(e, t), !.error = "FAILED_DLR"]
  ELSE IF mapped = "sent"
  THEN [m EXCEPT !.status = "sent", !.sentAt = DoneAt(e, t)]
  ELSE m

\* One event of the request's loop, applied at time t: every row whose
\* providerMessageId is the event's id is updated.
ApplyDlr(msgs, e, t) ==
  IF e.messageId = NoPid THEN msgs
  ELSE [i \in 1 .. Len(msgs) |->
          IF msgs[i].providerMessageId = e.messageId
          THEN ApplyToRow(msgs[i], e, t) ELSE msgs[i]]

DlrEvent(pid, status, doneAt) == [messageId |-> pid, status |-> status, doneAt |-> doneAt]

\* A delivery report for a send the provider accepted.
Dlr(pid, status, doneAt) ==
  /\ messages' = ApplyDlr(messages, DlrEvent(pid, status, doneAt), now)
  /\ UNCHANGED <<ledgerVars, campaign, subscribed, shopVars, apiVars, jobs, enq, now, provider, fin>>

(***************************************************************************)
(* finalizeCampaignIfDone, called by GET /campaigns/:id/status             *)
(***************************************************************************)
RemainingOpen(msgs) ==
  Cardinality({i \in 1 .. Len(msgs) :
                 msgs[i].campaignId = CampId /\ msgs[i].status \in {"queued", "sent"}})

\* The count; with open rows the call returns.
FinCount ==
  /\ fin = "idle"
  /\ RemainingOpen(messages) = 0
  /\ fin' = "update"
  /\ UNCHANGED <<ledgerVars, campaign, subscribed, shopVars, apiVars, messages, jobs, enq, now, provider>>

\* The campaign after updateMany where status is not completed.
FinalizeCampaign(c, t) ==
  IF c.status \notin {"completed", Deleted}
  THEN [c EXCEPT !.status = "completed", !.finishedAt = t]
  ELSE c

FinUpdate ==
  /\ fin = "update"
  /\ campaign' = FinalizeCampaign(campaign, now)
  /\ fin' = "idle"
  /\ UNCHANGED <<ledgerVars, subscribed, shopVars, apiVars, messages, jobs, enq, now, provider>>

Tick ==
  /\ now < MaxTime
  /\ now' = now + 1
  /\ UNCHANGED <<ledgerVars, campaign, subscribed, shopVars, apiVars, messages, jobs, enq, provider, fin>>

\* The store a successful enqueueCampaign leaves: the campaign in sending,
\* one queued row and one waiting job per subscribed member, the debit taken.
InitDispatch ==
      LET n == 1         \* a campaign of one recipient
          subs == 1 .. n
          b == MaxBalance
          rows == NewMessages(<<>>, SeqOf(subs)) IN
      /\ wallet = [o \in Owners |-> IF o = CampOwner THEN b - n ELSE 0]
      /\ ledger = <<Txn(CampOwner, "credit", b, b, "purchase", None, None),
                    Txn(CampOwner, "debit", n, b - n, "enqueue:campaign", CampId, None)>>
      /\ lastCall = [op |-> "debit", owner |-> CampOwner, amount |-> n, err |-> Null]
      /\ dc = [p \in Procs |-> IdleDc]
      /\ campaign = [NewCampaign("sending") EXCEPT !.startedAt = 0, !.total = n]
      /\ subscribed = subs
      /\ messages = rows
      /\ jobs = [i \in 1 .. n |-> NewJob(MessageJobId(i), i)]
      /\ enq = [p \in Procs |-> IdleEnq]
      /\ now = 0
      /\ provider = [c \in Contacts |-> 0]
      /\ fin = "idle"
      /\ InitApi

Init == InitDispatch

Next ==
  \/ \E j \in 1 .. Len(jobs) : WorkerStep(j)
  \/ \E m \in 1 .. Len(messages), status \in RawStatuses, doneAt \in {None} \cup (0 .. now) :
       \E k \in 1 .. provider[m] : Dlr(<<m, k>>, status, doneAt)
  \/ FinCount
  \/ FinUpdate
  \/ Tick

Spec == Init /\ [][Next]_vars


(***************************************************************************)
(* Claims on dispatch, delivery reports and completion                     *)
(***************************************************************************)
\* The refund rows of a message's hard failure.
HardFailRefunds(id) ==
  Cardinality({i \in 1 .. Len(ledger) :
                 /\ ledger[i].type = "refund"
                 /\ ledger[i].reason = "hardfail:message"
                 /\ ledger[i].messageId = id})

\* The message's dispatch task has failed terminally and the job is over.
FailedTerminally(j) ==
  /\ jobs[j].state = "completed"
  /\ messages[jobs[j].messageId].status = "failed"
  /\ messages[jobs[j].messageId].error = "send_failed"

\* C6: for every CampaignMessage the ledger holds at most one refund row with
\* reason hardfail:message:<id>, and exactly one once its dispatch task has
\* failed terminally, also when the job is executed again.
OneRefundPerMessage ==
  \A j \in 1 .. Len(jobs) :
    /\ HardFailRefunds(jobs[j].messageId) <= 1
    /\ FailedTerminally(j) => HardFailRefunds(jobs[j].messageId) = 1

\* The send errors the claim calls retryable: no status, 429, or 5xx.
RetryableStatuses == {status \in ErrStatuses : status = 0 \/ status = 429 \/ status >= 500}

\* C7: a dispatch attempt that fails with a retryable error leaves the message
\* queued with failedAt unset, appends no ledger row, and throws: the job is
\* not completed, and waits for another attempt while attempts remain.
RetryableFailureKeepsQueued ==
  [][\A j \in 1 .. Len(jobs), status \in RetryableStatuses :
       WorkerFail(j, status) =>
         /\ messages'[jobs[j].messageId].status = "queued"
         /\ messages'[jobs[j].messageId].failedAt = None
         /\ ledger' = ledger /\ wallet' = wallet
         /\ jobs'[j].state \in {"waiting", "failed"}
         /\ jobs'[j].attempts < MaxAttempts => jobs'[j].state = "waiting"]_vars

\* A job waits for its second attempt after a retryable failure of the first.
RetryableFailureWitness ==
  \E j \in 1 .. Len(jobs) :
    /\ jobs[j].state = "waiting" /\ jobs[j].attempts = 1 /\ jobs[j].stalled = 0
    /\ messages[jobs[j].messageId].status = "queued"
    /\ messages[jobs[j].messageId].error = "send_failed"
    /\ messages[jobs[j].messageId].failedAt = None
    /\ Len(ledger) = 2

\* C8: in every reachable store, applying a delivered report for a send the
\* provider accepted and then applying the same report again, at the same or
\* a later time, leaves the messages as the first application left them.
DeliveredReportIdempotent ==
  \A m \in 1 .. Len(messages), doneAt \in {None} \cup (0 .. now), later \in now .. MaxTime :
    \A k \in 1 .. provider[m] :
      LET e == DlrEvent(<<m, k>>, "DELIVRD", doneAt)
          once == ApplyDlr(messages, e, now) IN
      ApplyDlr(once, e, later) = once

\* C9: once the campaign is completed no later completion check changes it:
\* it stays completed and finishedAt keeps the value written first.
FinishedAtWrittenOnce ==
  [][campaign.status = "completed" =>
       /\ campaign'.status = "completed"
       /\ campaign'.finishedAt = campaign.finishedAt]_vars

\* C10: a completed campaign has no message in status queued or sent.
CompletedHasNoOpenMessages ==
  campaign.status = "completed" => RemainingOpen(messages) = 0


\* C13: across all attempts and redeliveries of a message's job the provider
\* accepts at most one send of the message.
AtMostOneAcceptedSend ==
  \A m \in 1 .. Len(messages) : provider[m] <= 1


\* ---------------------------------------------------------------------
\* The campaign routes: PUT and DELETE /campaigns/:id, POST
\* /campaigns/:id/enqueue, and the scheduler queue with its worker.
\* ---------------------------------------------------------------------

\* The request bodies of PUT: a rename, a scheduledAt date, scheduledAt null.
Bodies == {"edit", "schedule", "unschedule"}

\* The one scheduler job of the campaign, jobId campaign:schedule:<id>.
ScheduleJobId == <<"campaign:schedule", CampId>>

Respond(r, status) == [r EXCEPT !.pc = "done", !.resp = status]

\* PUT: findFirst, the 404 and the 409 check.
PutRead(r, body) ==
  /\ req[r].pc \in {"idle", "done"}
  /\ req' = [req EXCEPT ![r] =
       IF campaign.status = Deleted
       THEN Respond([IdleReq EXCEPT !.route = "PUT", !.body = body], 404)
       ELSE IF campaign.status = "sending"
       THEN Respond([IdleReq EXCEPT !.route = "PUT", !.body = body,
                                    !.status = campaign.status], 409)
       ELSE [IdleReq EXCEPT !.route = "PUT", !.body = body,
                            !.status = campaign.status,
                            !.pc = IF body = "edit" THEN "write" ELSE "sched"]]
  /\ UNCHANGED <<ledgerVars, campaign, subscribed, shopVars, sched, messages, jobs, enq, now,
                 provider, fin>>

\* PUT, the scheduling block: remove the job, and add it again for a date.
PutSched(r) ==
  /\ req[r].pc = "sched"
  /\ req[r].route = "PUT"
  /\ sched' = IF req[r].body = "schedule"
              THEN (sched \ {ScheduleJobId}) \cup {ScheduleJobId}
              ELSE sched \ {ScheduleJobId}
  /\ req' = [req EXCEPT ![r].pc = "write"]
  /\ UNCHANGED <<ledgerVars, campaign, subscribed, shopVars, messages, jobs, enq, now,
                 provider, fin>>

\* The data object PUT built from the body and the campaign it read.
PutData(c, body, readStatus) ==
  IF body = "edit" THEN [c EXCEPT !.name = "name1"]
  ELSE IF body = "schedule" THEN [c EXCEPT !.scheduledAt = 0, !.status = "scheduled"]
  ELSE [c EXCEPT !.scheduledAt = None,
                 !.status = IF readStatus = "scheduled" THEN "draft" ELSE @]

\* PUT: campaign.update where id, and the answer.
PutWrite(r) ==
  /\ req[r].pc = "write"
  /\ req[r].route = "PUT"
  /\ IF campaign.status = Deleted
     THEN /\ campaign' = campaign
          /\ req' = [req EXCEPT ![r] = Respond(@, 500)]
     ELSE /\ campaign' = PutData(campaign, req[r].body, req[r].status)
          /\ req' = [req EXCEPT ![r] = Respond(@, 200)]
  /\ UNCHANGED <<ledgerVars, subscribed, shopVars, sched, messages, jobs, enq, now, provider, fin>>

\* DELETE: findFirst, the 404 and the 409 check.
DelRead(r) ==
  /\ req[r].pc \in {"idle", "done"}
  /\ req' = [req EXCEPT ![r] =
       IF campaign.status = Deleted
       THEN Respond([IdleReq EXCEPT !.route = "DELETE"], 404)
       ELSE IF campaign.status = "sending"
       THEN Respond([IdleReq EXCEPT !.route = "DELETE", !.status = campaign.status], 409)
       ELSE [IdleReq EXCEPT !.route = "DELETE", !.status = campaign.status,
                            !.pc = "sched"]]
  /\ UNCHANGED <<ledgerVars, campaign, subscribed, shopVars, sched, messages, jobs, enq, now,
                 provider, fin>>

\* DELETE: the scheduler job is removed.
DelSched(r) ==
  /\ req[r].pc = "sched"
  /\ req[r].route = "DELETE"
  /\ sched' = sched \ {ScheduleJobId}
  /\ req' = [req EXCEPT ![r].pc = "write"]
  /\ UNCHANGED <<ledgerVars, campaign, subscribed, shopVars, messages, jobs, enq, now,
                 provider, fin>>

\* DELETE: campaign.delete where id; the CampaignMessage rows go with it
\* (foreign key ON DELETE CASCADE).
DelWrite(r) ==
  /\ req[r].pc = "write"
  /\ req[r].route = "DELETE"
  /\ IF campaign.status = Deleted
     THEN /\ UNCHANGED <<campaign, messages>>
          /\ req' = [req EXCEPT ![r] = Respond(@, 500)]
     ELSE /\ campaign' = [campaign EXCEPT !.status = Deleted]
          /\ messages' = <<>>
          /\ req' = [req EXCEPT ![r] = Respond(@, 200)]
  /\ UNCHANGED <<ledgerVars, subscribed, shopVars, sched, jobs, enq, now, provider, fin>>

\* The caller has no enqueueCampaign running.
CallerFree(p) == enq[p].pc \in {"idle", "done", "answered"}

\* The HTTP status POST /campaigns/:id/enqueue answers with for the
\* result enqueueCampaign returned or the error it threw.
EnqueueResponse(result) ==
  IF result = OkResult THEN 200
  ELSE IF result = "no_valid_recipients" THEN 400
  ELSE IF result = "throws:402" THEN 402
  ELSE 500

\* POST /campaigns/:id/enqueue after enqueueCampaign: the answer.
PostEnqueueRespond(p) ==
  /\ enq[p].pc = "done"
  /\ enq' = [enq EXCEPT ![p].pc = "answered", ![p].resp = EnqueueResponse(enq[p].result)]
  /\ UNCHANGED <<ledgerVars, campaign, subscribed, shopVars, apiVars, messages, jobs, now,
                 provider, fin>>

\* POST /campaigns/:id/enqueue up to the call of enqueueCampaign.
PostEnqueue(p) ==
  /\ CallerFree(p)
  /\ enq' = [enq EXCEPT ![p] =
       IF campaign.status = Deleted
       THEN [IdleEnq EXCEPT !.pc = "answered", !.resp = 404]
       ELSE IF campaign.status \notin Enqueueable
       THEN [IdleEnq EXCEPT !.pc = "answered", !.camp = campaign.status, !.resp = 409]
       ELSE [IdleEnq EXCEPT !.pc = "call"]]
  /\ UNCHANGED <<ledgerVars, campaign, subscribed, shopVars, apiVars, messages, jobs, now,
                 provider, fin>>

\* The scheduler worker takes the due job and calls enqueueCampaign; the
\* job leaves the queue (removeOnComplete).
SchedFire(p) ==
  /\ ScheduleJobId \in sched
  /\ CallerFree(p)
  /\ sched' = sched \ {ScheduleJobId}
  /\ enq' = [enq EXCEPT ![p] = [IdleEnq EXCEPT !.pc = "call"]]
  /\ UNCHANGED <<ledgerVars, campaign, subscribed, shopVars, req, messages, jobs, now,
                 provider, fin>>

\* The store after a campaign of one recipient ran to completion: its
\* message delivered, its job completed, its cost debited.
InitCompleted ==
  LET n == 1
      b == MaxBalance
      row == [NewMessage(1, 1) EXCEPT !.status = "delivered",
                !.providerMessageId = <<1, 1>>, !.sentAt = 0, !.deliveredAt = 0] IN
  /\ wallet = [o \in Owners |-> IF o = CampOwner THEN b - n ELSE 0]
  /\ ledger = <<Txn(CampOwner, "credit", b, b, "purchase", None, None),
                Txn(CampOwner, "debit", n, b - n, "enqueue:campaign", CampId, None)>>
  /\ lastCall = [op |-> "debit", owner |-> CampOwner, amount |-> n, err |-> Null]
  /\ dc = [p \in Procs |-> IdleDc]
  /\ campaign = [NewCampaign("completed") EXCEPT !.startedAt = 0, !.finishedAt = 0,
                                                  !.total = n]
  /\ subscribed = 1 .. n
  /\ messages = <<row>>
  /\ jobs = <<[NewJob(MessageJobId(1), 1) EXCEPT !.state = "completed", !.attempts = 1]>>
  /\ enq = [p \in Procs |-> IdleEnq]
  /\ now = 0
  /\ provider = [c \in Contacts |-> IF c = 1 THEN 1 ELSE 0]
  /\ fin = "idle"
  /\ InitApi

\* A funded owner with a fresh campaign, or with a completed one.
InitRoutes ==
  \/ /\ InitWallet(MaxBalance)
     /\ \E status \in {"draft", "scheduled"} : InitPipeline(status, Contacts)
  \/ InitCompleted

RouteStep(r) ==
  \/ \E body \in Bodies : PutRead(r, body)
  \/ PutSched(r)
  \/ PutWrite(r)
  \/ DelRead(r)
  \/ DelSched(r)
  \/ DelWrite(r)

\* A step of an enqueueCampaign that a route or the scheduler has called.
CalledEnqueueStep(p) ==
  /\ enq[p].pc # "idle"
  /\ EnqueueStep(p)

NextRoutes ==
  \/ \E r \in Reqs : RouteStep(r)
  \/ \E p \in Procs : PostEnqueue(p)
  \/ \E p \in Procs : SchedFire(p)
  \/ \E p \in Procs : CalledEnqueueStep(p)

SpecRoutes == InitRoutes /\ [][NextRoutes]_vars

\* C15: a PUT or DELETE answered while the campaign is sending answers 409
\* and leaves the campaign and its messages as they are.
SendingIsImmutable ==
  [][\A r \in Reqs :
       (campaign.status = "sending" /\ req[r].pc # "done" /\ req'[r].pc = "done")
         => (req'[r].resp = 409 /\ campaign' = campaign /\ messages' = messages)]_vars

\* C16: completed is terminal: no step changes the status of a completed
\* campaign.
CompletedIsTerminal ==
  [][campaign.status = "completed" => campaign'.status = "completed"]_vars

\* C17: once an enqueue has set total and created the rows, no later step
\* creates CampaignMessage rows for the campaign or changes total.
SingleMaterialization ==
  [][(campaign.total # None /\ campaign.total > 0)
       => (Len(messages') <= Len(messages) /\ campaign'.total = campaign.total)]_vars


\* ---------------------------------------------------------------------
\* POST /webhooks/mitto/dlr as a request: verification, the loop over the
\* events with its inner try/catch, and the answer.
\* ---------------------------------------------------------------------

\* A provider id no CampaignMessage carries (a test callback).
UnknownPid == <<0, 0>>

\* The events a request can carry: with or without an id, matched or
\* not, with a known or an unknown status.
DlrEvents ==
  {DlrEvent(pid, st, None) : pid \in {NoPid, <<1, 1>>, UnknownPid}, st \in RawStatuses}

RECURSIVE SeqsUpTo(_, _)
SeqsUpTo(S, n) ==
  IF n = 0 THEN {<<>>}
  ELSE LET shorter == SeqsUpTo(S, n - 1) IN
       shorter \cup {Append(q, x) : q \in {t \in shorter : Len(t) = n - 1}, x \in S}

DlrBodies == SeqsUpTo(DlrEvents, MaxEvents) \ {<<>>}

Logged(f, what) == [f EXCEPT !.logged = @ \cup {what}]

\* A store error escaping the inner try: the loop's catch answers 500.
DlrStoreErrorRethrown(f) == Respond(Logged(f, "store_error"), 500)

\* A store error inside the inner try: logged, the loop goes on.
DlrStoreError(f) == [Logged(f, "store_error") EXCEPT !.body = Tail(@)]

\* An event without an id that ends the loop instead of being skipped.
DlrSkipAborts(f, what) == Respond(Logged(f, what), 202)

\* continue: the event is logged and the loop goes on with the next one.
DlrSkip(f, what) == [Logged(f, what) EXCEPT !.body = Tail(@)]

\* The rows findMany returns for a provider id.
Matched(msgs, pid) == {i \in 1 .. Len(msgs) : msgs[i].providerMessageId = pid}

\* verifyWebhook and the events array (one request is followed).
DlrStart(r, verified, events) ==
  /\ req[r].pc = "idle"
  /\ req' = [req EXCEPT ![r] =
       IF verified
       THEN [IdleReq EXCEPT !.route = "DLR", !.status = "verified", !.pc = "loop",
                            !.body = events]
       ELSE Respond([IdleReq EXCEPT !.route = "DLR", !.status = "rejected"], 401)]
  /\ UNCHANGED <<ledgerVars, campaign, subscribed, shopVars, sched, messages, jobs, enq, now,
                 provider, fin>>

\* One pass of the loop with the store working.
DlrApply(r) ==
  /\ req[r].pc = "loop"
  /\ req[r].body # <<>>
  /\ LET e == Head(req[r].body)
         rest == [req[r] EXCEPT !.body = Tail(@)]
         mapped == mapStatus(e.status)
         n == Cardinality(Matched(messages, e.messageId)) IN
       IF e.messageId = NoPid
       THEN /\ req' = [req EXCEPT ![r] = DlrSkip(@, "no_id")]
            /\ messages' = messages
       ELSE IF n = 0
       THEN /\ req' = [req EXCEPT ![r] = Logged(rest, "unmatched")]
            /\ messages' = messages
       ELSE /\ messages' = ApplyDlr(messages, e, now)
            /\ req' = [req EXCEPT ![r] =
                 IF mapped = "unknown" THEN Logged(rest, "unknown")
                 ELSE IF mapped \in {"delivered", "failed"}
                 THEN [rest EXCEPT !.updated = @ + n]
                 ELSE rest]
  /\ UNCHANGED <<ledgerVars, campaign, subscribed, shopVars, sched, jobs, enq, now, provider, fin>>

\* One pass of the loop in which findMany or updateMany throws.
DlrApplyFails(r) ==
  /\ req[r].pc = "loop"
  /\ req[r].body # <<>>
  /\ Head(req[r].body).messageId # NoPid
  /\ req' = [req EXCEPT ![r] = DlrStoreError(@)]
  /\ UNCHANGED <<ledgerVars, campaign, subscribed, shopVars, sched, messages, jobs, enq, now,
                 provider, fin>>

\* After the loop: 202.
DlrAccept(r) ==
  /\ req[r].pc = "loop"
  /\ req[r].body = <<>>
  /\ req' = [req EXCEPT ![r] = Respond(@, 202)]
  /\ UNCHANGED <<ledgerVars, campaign, subscribed, shopVars, sched, messages, jobs, enq, now,
                 provider, fin>>

\* An error reaching the handler's outer catch: 200.
DlrHandlerError(r) ==
  /\ req[r].pc = "loop"
  /\ req' = [req EXCEPT ![r] = Respond(Logged(@, "handler_error"), 200)]
  /\ UNCHANGED <<ledgerVars, campaign, subscribed, shopVars, sched, messages, jobs, enq, now,
                 provider, fin>>

\* The store after the worker sent the n messages of a campaign.
SentStore(n) ==
  LET b == IF n > MaxBalance THEN n ELSE MaxBalance IN
  /\ wallet = [o \in Owners |-> IF o = CampOwner THEN b - n ELSE 0]
  /\ ledger = <<Txn(CampOwner, "credit", b, b, "purchase", None, None),
                Txn(CampOwner, "debit", n, b - n, "enqueue:campaign", CampId, None)>>
  /\ lastCall = [op |-> "debit", owner |-> CampOwner, amount |-> n, err |-> Null]
  /\ dc = [p \in Procs |-> IdleDc]
  /\ campaign = [NewCampaign("sending") EXCEPT !.startedAt = 0, !.total = n]
  /\ subscribed = 1 .. n
  /\ messages = [i \in 1 .. n |-> MarkSent(NewMessage(i, i), <<i, 1>>, 0)]
  /\ jobs = [i \in 1 .. n |->
               [NewJob(MessageJobId(i), i) EXCEPT !.state = "completed", !.attempts = 1]]
  /\ enq = [p \in Procs |-> IdleEnq]
  /\ now = 0
  /\ provider = [c \in Contacts |-> IF c <= n THEN 1 ELSE 0]
  /\ fin = "idle"
  /\ InitApi

\* The store after the worker sent the campaign's one message.
InitSent == SentStore(1)

NextDlr ==
  \E r \in Reqs :
    \/ \E verified \in BOOLEAN, events \in DlrBodies : DlrStart(r, verified, events)
    \/ DlrApply(r)
    \/ DlrApplyFails(r)
    \/ DlrAccept(r)
    \/ DlrHandlerError(r)

SpecDlr == InitSent /\ [][NextDlr]_vars

\* C18: every verified delivery-report request that has been answered was
\* answered with 202 or 200, whatever its events and whatever failed.
DlrAlwaysAcknowledged ==
  \A r \in Reqs :
    (req[r].route = "DLR" /\ req[r].status = "verified" /\ req[r].pc = "done")
      => req[r].resp \in {200, 202}

\* A verified request was answered 202 after an event without id, an
\* unmatched event, an unknown status or a store error.
DlrAcknowledgedWitness ==
  \E r \in Reqs :
    /\ req[r].route = "DLR" /\ req[r].status = "verified" /\ req[r].pc = "done"
    /\ req[r].resp = 202
    /\ "store_error" \in req[r].logged
    /\ req[r].logged \cap {"no_id", "unmatched", "unknown"} # {}


\* C20: a failing credit, debit or refund leaves the wallets and the ledger
\* as they were; a non-integer or non-positive amount fails with
\* INVALID_AMOUNT, and a debit above the balance with INSUFFICIENT_CREDITS.
FailingCallChangesNothing ==
  [][LET c == lastCall' IN
       /\ c.err # Null => (wallet' = wallet /\ ledger' = ledger)
       /\ (~NumberIsInteger(c.amount) \/ c.amount <= 0) => c.err = "INVALID_AMOUNT"
       /\ (/\ c.op = "debit"
           /\ NumberIsInteger(c.amount)
           /\ c.amount > 0
           /\ c.amount > wallet[c.owner]) => c.err = "INSUFFICIENT_CREDITS"]_vars

\* C20 witness: a call with the non-integer amount has failed on a funded
\* wallet with rows in the ledger.
FailingCallWitness ==
  /\ lastCall.err = "INVALID_AMOUNT"
  /\ ~NumberIsInteger(lastCall.amount)
  /\ wallet[lastCall.owner] > 0
  /\ Len(ledger) >= 2


\* ---------------------------------------------------------------------
\* The two writers of the ledger side by side on one wallet:
\* appendTxnAndUpdate, with a positive and a negative delta, and
\* debitCredits.
\* ---------------------------------------------------------------------
NextLedgerWrites ==
  \/ \E amount \in Amounts :
       \/ Credit(CampOwner, amount)
       \/ Debit(CampOwner, amount)
  \/ \E p \in Procs, units \in 1 .. MaxAmount :
       \/ DebitCreditsRead(p, CampOwner, units)
       \/ DebitCreditsThrow(p, CampOwner, units)
  \/ \E p \in Procs : DebitCreditsWrite(p)

SpecLedgerWrites == InitLedger /\ [][NextLedgerWrites]_vars

\* C19: a step that appends a CreditTransaction row appends exactly one,
\* whose balanceAfter is the balance the owner's wallet holds after the
\* step, and no step changes a wallet without appending a row: neither
\* write exists without the other, also after a failed call.
BalanceAfterIsWalletSnapshot ==
  [][/\ ledger' # ledger =>
          /\ Len(ledger') = Len(ledger) + 1
          /\ SubSeq(ledger', 1, Len(ledger)) = ledger
          /\ LET t == ledger'[Len(ledger')] IN
               /\ t.balanceAfter = wallet'[t.ownerId]
               /\ \A o \in Owners \ {t.ownerId} : wallet'[o] = wallet[o]
     /\ wallet' # wallet => ledger' # ledger]_vars

\* C19 witness: rows of both writers are in the ledger and the last call
\* failed.
BalanceAfterWitness ==
  /\ lastCall.err # Null
  /\ \E i, j \in 1 .. Len(ledger) :
       /\ ledger[i].reason = "campaign enqueue"
       /\ ledger[j].type = "credit"
       /\ i > j


\* ---------------------------------------------------------------------
\* Tracking: POST /tracking/redeem and the public offer page
\* GET /tracking/offer/:trackingId.  A message's trackingId is its id.
\* ---------------------------------------------------------------------

\* A trackingId no CampaignMessage carries.
UnknownTrackingId == 0

\* The trackingIds a caller may send.
TrackingIds == {UnknownTrackingId} \cup Contacts

\* The message's owner (every message belongs to the campaign's owner).
MessageOwner(id) == CampOwner

RedemptionOf(rows, id) == {i \in 1 .. Len(rows) : rows[i].messageId = id}

\* redemption.create: the primary key messageId rejects a second row.
RedemptionCreate(rows, row) ==
  IF RedemptionOf(rows, row.messageId) # {}
  THEN [err |-> "P2002", rows |-> rows]
  ELSE [err |-> Null, rows |-> Append(rows, row)]

\* redemption.upsert of the offer page, one statement.
RedemptionUpsert(rows, id) ==
  IF RedemptionOf(rows, id) # {}
  THEN [i \in 1 .. Len(rows) |->
          IF rows[i].messageId = id THEN [rows[i] EXCEPT !.visits = @ + 1] ELSE rows[i]]
  ELSE Append(rows, [messageId |-> id, redeemedByUserId |-> Null, visits |-> 1])

Answer(f, status, answer) == [f EXCEPT !.pc = "done", !.resp = status, !.answer = answer]

\* An owner check that answers 403 for another owner's message.
ForbiddenAs403(f) == Answer(f, 403, "forbidden")

\* The answer for a message of another owner: the one for no message.
Forbidden(f) == Answer(f, 200, "not_found_or_forbidden")

\* POST /tracking/redeem up to the lookup of an existing redemption.
RedeemRead(r, user, tid) ==
  /\ req[r].pc \in {"idle", "done"}
  /\ LET f == [IdleReq EXCEPT !.route = "REDEEM", !.user = user, !.body = tid] IN
     req' = [req EXCEPT ![r] =
       IF tid \notin 1 .. Len(messages) THEN Answer(f, 200, "not_found_or_forbidden")
       ELSE IF MessageOwner(tid) # user THEN Forbidden(f)
       ELSE IF RedemptionOf(redemption, tid) # {} THEN Answer(f, 200, "already_redeemed")
       ELSE [f EXCEPT !.pc = "create"]]
  /\ UNCHANGED <<ledgerVars, campaign, subscribed, sched, redemption, purchases, idem, pur,
                 messages, jobs, enq, now, provider, fin>>

\* POST /tracking/redeem: redemption.create and the answer; an error of
\* the create goes to next(err).
RedeemCreate(r) ==
  /\ req[r].pc = "create"
  /\ req[r].route = "REDEEM"
  /\ LET c == RedemptionCreate(redemption,
                [messageId |-> req[r].body, redeemedByUserId |-> req[r].user,
                 visits |-> 0]) IN
       /\ redemption' = c.rows
       /\ req' = [req EXCEPT ![r] =
            IF c.err = Null THEN Answer(@, 200, "redeemed") ELSE Answer(@, 500, c.err)]
  /\ UNCHANGED <<ledgerVars, campaign, subscribed, sched, purchases, idem, pur,
                 messages, jobs, enq, now, provider, fin>>

\* GET /tracking/offer/:trackingId: the visit is logged by an upsert.
OfferVisit(tid) ==
  /\ tid \in 1 .. Len(messages)
  /\ \A i \in RedemptionOf(redemption, tid) : redemption[i].visits < MaxVisits
  /\ redemption' = RedemptionUpsert(redemption, tid)
  /\ UNCHANGED <<ledgerVars, campaign, subscribed, apiVars, purchases, idem, pur,
                 messages, jobs, enq, now, provider, fin>>

NextTracking ==
  \/ \E r \in Reqs, user \in Owners, tid \in TrackingIds : RedeemRead(r, user, tid)
  \/ \E r \in Reqs : RedeemCreate(r)
  \/ \E tid \in TrackingIds : OfferVisit(tid)

\* The store after the worker sent a message to every contact.
InitTracking == SentStore(NumContacts)

SpecTracking == InitTracking /\ [][NextTracking]_vars

\* C21: at most one Redemption row exists per message, and every redeem
\* call of the message's owner for an existing message that has been
\* answered was answered redeemed or already_redeemed.
RedeemOnceWithoutError ==
  /\ \A id \in 1 .. Len(messages) : Cardinality(RedemptionOf(redemption, id)) <= 1
  /\ \A r \in Reqs :
       (/\ req[r].route = "REDEEM" /\ req[r].pc = "done"
        /\ req[r].body \in 1 .. Len(messages)
        /\ req[r].user = MessageOwner(req[r].body))
         => req[r].answer \in {"redeemed", "already_redeemed"}


\* ---------------------------------------------------------------------
\* POST /campaigns/:id/enqueue alone, on wallets of every opening balance.
\* ---------------------------------------------------------------------
NextEnqueueRoute ==
  \E p \in Procs :
    \/ PostEnqueue(p)
    \/ CalledEnqueueStep(p)
    \/ PostEnqueueRespond(p)

SpecEnqueueRoute == InitEnqueue /\ [][NextEnqueueRoute]_vars

\* C22: a POST /campaigns/:id/enqueue whose enqueueCampaign failed for
\* insufficient credits is answered with 402.
InsufficientCreditsIs402 ==
  \A p \in Procs :
    (/\ enq[p].pc = "answered"
     /\ enq[p].result \in {"insufficient_credits", "throws:402"})
      => enq[p].resp = 402


\* ---------------------------------------------------------------------
\* POST /billing/purchase behind requireIdempotencyKey, called by the
\* campaign's owner.
\* ---------------------------------------------------------------------

\* The Idempotency-Key headers sent; Null is a request without the header.
IdemKeys == {"k1", "k2"}

\* ttlSec of saveIdempotency, with the clock counted in seconds.
IdemTtlSec == 300

\* pkg.units of the one active package.
PackageUnits == 1

\* getValid: the entry of the key, unless it has expired.
GetValid(cache, key, t) == {e \in cache : e.key = key /\ e.expires > t}

\* The cache after getValid, which deletes an expired entry of the key.
AfterGetValid(cache, key, t) == {e \in cache : e.key # key \/ e.expires > t}

\* setWithTTL: cache.set replaces the entry of the key.
SetWithTTL(cache, key, body, status, t) ==
  {e \in cache : e.key # key}
    \cup {[key |-> key, body |-> body, status |-> status, expires |-> t + IdemTtlSec]}

\* requireIdempotencyKey: 400 without the header, the cached answer for a
\* key seen in the TTL, else on to purchaseHandler.
PurchaseArrive(p, key) ==
  /\ pur[p].pc \in {"idle", "done"}
  /\ IF key = Null
     THEN /\ pur' = [pur EXCEPT ![p] = [IdlePur EXCEPT !.pc = "done", !.resp = 400]]
          /\ idem' = idem
     ELSE /\ idem' = AfterGetValid(idem, key, now)
          /\ LET prev == GetValid(idem, key, now) IN
             pur' = [pur EXCEPT ![p] =
               IF prev # {}
               THEN LET e == CHOOSE e \in prev : TRUE IN
                    [IdlePur EXCEPT !.pc = "done", !.key = key, !.resp = e.status,
                                    !.body = e.body]
               ELSE [IdlePur EXCEPT !.pc = "create", !.key = key]]
  /\ UNCHANGED <<ledgerVars, campaign, subscribed, redemption, purchases, apiVars, messages,
                 jobs, enq, now, provider, fin>>

\* purchase.create; the row's id is its index.
PurchaseCreate(p) ==
  /\ pur[p].pc = "create"
  /\ Len(purchases) < MaxPurchases
  /\ purchases' = Append(purchases, [id |-> Len(purchases) + 1, ownerId |-> CampOwner,
                                     units |-> PackageUnits, status |-> "paid"])
  /\ pur' = [pur EXCEPT ![p].pc = "credit", ![p].purchase = Len(purchases) + 1]
  /\ UNCHANGED <<ledgerVars, campaign, subscribed, redemption, idem, apiVars, messages,
                 jobs, enq, now, provider, fin>>

PurchaseMeta == [reason |-> "purchase", campaignId |-> None, messageId |-> None]

\* credit(req.user.id, pkg.units, ...).
PurchaseCredit(p) ==
  /\ pur[p].pc = "credit"
  /\ LET r == credit(wallet, ledger, CampOwner, PackageUnits, PurchaseMeta) IN
       /\ wallet' = r.wallet
       /\ ledger' = r.ledger
       /\ lastCall' = [op |-> "credit", owner |-> CampOwner, amount |-> PackageUnits,
                       err |-> r.err]
  /\ pur' = [pur EXCEPT ![p].pc = "answer"]
  /\ UNCHANGED <<dc, campaign, subscribed, redemption, purchases, idem, apiVars, messages,
                 jobs, enq, now, provider, fin>>

\* res.saveIdempotency(payload, 201) and the answer 201.
PurchaseAnswer(p) ==
  /\ pur[p].pc = "answer"
  /\ idem' = SetWithTTL(idem, pur[p].key, pur[p].purchase, 201, now)
  /\ pur' = [pur EXCEPT ![p].pc = "done", ![p].resp = 201, ![p].body = pur[p].purchase]
  /\ UNCHANGED <<ledgerVars, campaign, subscribed, redemption, purchases, apiVars, messages,
                 jobs, enq, now, provider, fin>>

NextPurchase ==
  \/ \E p \in Procs, key \in IdemKeys \cup {Null} : PurchaseArrive(p, key)
  \/ \E p \in Procs : PurchaseCreate(p)
  \/ \E p \in Procs : PurchaseCredit(p)
  \/ \E p \in Procs : PurchaseAnswer(p)
  \/ Tick

SpecPurchase == InitLedger /\ [][NextPurchase]_vars

\* C23: two answered purchase requests with the same Idempotency-Key carry
\* the same purchase, and the wallet holds one package per key used.
OnePurchasePerKey ==
  /\ \A p, q \in Procs :
       (/\ pur[p].pc = "done" /\ pur[q].pc = "done"
        /\ pur[p].key # Null /\ pur[p].key = pur[q].key)
         => pur[p].body = pur[q].body
  /\ wallet[CampOwner] <= PackageUnits * Cardinality(IdemKeys)


\* C24: when no enqueueCampaign call is running, the campaign is not in
\* status sending without any CampaignMessage row.
NoSendingWithoutMessages ==
  (\A p \in Procs : enq[p].pc \in {"idle", "done"})
    => ~(campaign.status = "sending" /\ CampaignRows = {})


\* C25: a call of enqueueCampaign that returns ok has debited as many
\* credits as it resolved recipients (the ledger holds a debit of that
\* amount), has created that many rows and has set Campaign.total to that
\* number.
OkEnqueueCountsAgree ==
  [][\A p \in Procs :
       (enq[p].pc # "done" /\ enq'[p].pc = "done" /\ enq'[p].result = OkResult)
         => /\ enq'[p].created = Len(enq'[p].members)
            /\ campaign'.total = Len(enq'[p].members)
            /\ \E i \in 1 .. Len(ledger') :
                 /\ ledger'[i].type = "debit"
                 /\ ledger'[i].amount = Len(enq'[p].members)]_vars


\* The results of a call that resolved no recipient.
EmptyAudienceResults == {"no_recipients", "no_valid_recipients"}

\* C26: a call of enqueueCampaign that ends with no_recipients or
\* no_valid_recipients has resolved no recipient, writes no wallet, ledger or
\* message state in that step, and leaves the campaign in status failed.
EmptyAudienceFailsCampaign ==
  [][\A p \in Procs :
       (enq[p].pc # "done" /\ enq'[p].pc = "done"
          /\ enq'[p].result \in EmptyAudienceResults)
         => /\ Members = <<>>
            /\ UNCHANGED <<wallet, ledger, messages, jobs>>
            /\ campaign'.status = "failed"]_vars


\* A funded owner with a fresh campaign and any set of subscribed contacts.
InitReEnqueue ==
  /\ InitWallet(MaxBalance)
  /\ \E status \in {"draft", "scheduled"}, subs \in SUBSET Contacts :
       InitPipeline(status, subs)

\* The client whose POST /campaigns/:id/enqueue requests follow one another.
Caller == "p1"

\* PUT /campaigns/:id next to POST /campaigns/:id/enqueue: a PUT that writes
\* status scheduled makes the campaign enqueueable again, and the next
\* enqueueCampaign reads every queued row of the campaign, the earlier
\* calls' rows included, into its add loop.
NextReEnqueue ==
  \/ \E r \in Reqs, body \in Bodies : PutRead(r, body)
  \/ \E r \in Reqs : PutSched(r)
  \/ \E r \in Reqs : PutWrite(r)
  \/ PostEnqueue(Caller)
  \/ CalledEnqueueStep(Caller)

SpecReEnqueue == InitReEnqueue /\ [][NextReEnqueue]_vars

EnqFindNoQueue(p) ==
  /\ enq[p].pc = "find"
  /\ enq' = [enq EXCEPT ![p].pc = "done", ![p].todo = QueuedIds(messages),
                        ![p].result = OkResult]
  /\ UNCHANGED <<ledgerVars, campaign, subscribed, shopVars, apiVars, messages, jobs, now,
                 provider, fin>>

\* smsQueue.add rejecting: the loop has no handler, the error leaves
\* enqueueCampaign with the remaining rows not added.
EnqAddJobFails(p) ==
  /\ enq[p].pc = "jobs"
  /\ enq' = [enq EXCEPT ![p].pc = "done", ![p].result = "throws"]
  /\ UNCHANGED <<ledgerVars, campaign, subscribed, shopVars, apiVars, messages, jobs, now,
                 provider, fin>>

NextDegradedEnqueue ==
  \E p \in Procs :
    \/ EnqueueStep(p)
    \/ EnqFindNoQueue(p)
    \/ EnqAddJobFails(p)

SpecDegradedEnqueue == InitEnqueue /\ [][NextDegradedEnqueue]_vars

\* C28: a call of enqueueCampaign that ends in its add step with rows it
\* has not given to the queue (no queue, or an add that failed) changes no
\* campaign, wallet, ledger or message state in that step, returns ok with
\* enqueuedJobs <= created, and the rows without a task are in status queued.
DegradedQueueStillOk ==
  [][\A p \in Procs :
       (enq[p].pc \in {"find", "jobs"} /\ enq'[p].pc = "done"
          /\ enq'[p].todo # <<>>)
         => /\ UNCHANGED <<campaign, wallet, ledger, messages>>
            /\ enq'[p].result = OkResult
            /\ enq'[p].enqueuedJobs <= enq'[p].created
            /\ \A k \in 1 .. Len(enq'[p].todo) :
                 messages'[enq'[p].todo[k]].status = "queued"]_vars


SentBucket == {"queued", "accepted", "submitted", "enroute", "sent"}

\* C31: a delivery report with a status of the sent bucket leaves the status
\* of every message that is delivered or failed as it is, and a report with
\* an unrecognized status changes no message.
SentReportKeepsTerminal ==
  [][\A m \in 1 .. Len(messages), status \in RawStatuses, doneAt \in {None} \cup (0 .. now) :
       \A k \in 1 .. provider[m] :
         Dlr(<<m, k>>, status, doneAt) =>
           /\ status \in SentBucket =>
                \A i \in 1 .. Len(messages) :
                  messages[i].status \in {"delivered", "failed"}
                    => messages'[i].status = messages[i].status
           /\ status = "bogus" => messages' = messages]_vars


\* The position of a status in queued -> sent -> {delivered, failed}.
StatusRank(status) ==
  CASE status = "queued" -> 0
    [] status = "sent" -> 1
    [] OTHER -> 2

\* C32: no step of the worker, the webhook or the finalizer moves a
\* CampaignMessage to an earlier status of queued -> sent -> {delivered,
\* failed}.
StatusMovesForward ==
  [][\A i \in 1 .. Len(messages) :
       i <= Len(messages') =>
         StatusRank(messages'[i].status) >= StatusRank(messages[i].status)]_vars


\* C33: whenever the provider has accepted a send and the worker has not yet
\* stored its result, processing the worker's update and the provider's
\* delivered report for that send leaves the message delivered in both
\* orders.
DeliveredInEitherOrder ==
  \A j \in 1 .. Len(jobs) :
    jobs[j].pc = "record" =>
      LET m == jobs[j].messageId
          e == DlrEvent(jobs[j].pid, "DELIVRD", None)
          recorded == [messages EXCEPT ![m] = MarkSent(@, jobs[j].pid, now)]
          reported == ApplyDlr(messages, e, now) IN
        /\ ApplyDlr(recorded, e, now)[m].status = "delivered"
        /\ MarkSent(reported[m], jobs[j].pid, now).status = "delivered"


\* C34: in the loop over a request's events, an event without a message id
\* and an event whose store call throws change no message and do not end the
\* loop: the next pass takes the next event; every other event is applied to
\* the rows it matches, and the loop ends only after the last event (or in
\* the handler's outer catch).
BadEventIsSkipped ==
  [][\A r \in Reqs :
       LET e == Head(req[r].body) IN
         /\ DlrApplyFails(r) =>
              /\ messages' = messages
              /\ req'[r].pc = "loop" /\ req'[r].body = Tail(req[r].body)
         /\ DlrApply(r) =>
              /\ req'[r].pc = "loop" /\ req'[r].body = Tail(req[r].body)
              /\ messages' = IF e.messageId = NoPid THEN messages
                             ELSE ApplyDlr(messages, e, now)
         /\ (req[r].pc = "loop" /\ req'[r].pc = "done")
              => req[r].body = <<>> \/ req'[r].resp = 200]_vars

\* A request was answered 202 after one of its events was skipped (no id,
\* or a store error) and another one was applied.
BadEventWitness ==
  \E r \in Reqs :
    /\ req[r].pc = "done" /\ req[r].resp = 202
    /\ req[r].logged \cap {"no_id", "store_error"} # {}
    /\ req[r].updated > 0
    /\ messages[1].status \in {"delivered", "failed"}


(***************************************************************************)
(* The scheduler job over the life of a campaign                           *)
(***************************************************************************)
\* No Campaign row has had the id yet (ids are not used twice).
NoCampaignYet == [NewCampaign(Deleted) EXCEPT !.name = Null]

\* POST /campaigns: prisma.campaign.create with status scheduled when the
\* body has a scheduledAt, draft otherwise; the route makes no queue call.
PostCampaign(r, scheduled) ==
  /\ req[r].pc \in {"idle", "done"}
  /\ campaign = NoCampaignYet
  /\ campaign' = NewCampaign(IF scheduled THEN "scheduled" ELSE "draft")
  /\ req' = [req EXCEPT ![r] = Respond([IdleReq EXCEPT !.route = "POST"], 201)]
  /\ UNCHANGED <<ledgerVars, subscribed, shopVars, sched, messages, jobs, enq, now,
                 provider, fin>>

\* The scheduling block of PUT or DELETE when schedulerQueue.remove throws:
\* the error is swallowed, the job stays, and the request goes on.
SchedRemoveFails(r) ==
  /\ req[r].pc = "sched"
  /\ sched' = IF req[r].route = "PUT" /\ req[r].body = "schedule"
              THEN sched \cup {ScheduleJobId} ELSE sched
  /\ req' = [req EXCEPT ![r].pc = "write"]
  /\ UNCHANGED <<ledgerVars, campaign, subscribed, shopVars, messages, jobs, enq, now,
                 provider, fin>>

InitSchedule ==
  /\ InitWallet(MaxBalance)
  /\ campaign = NoCampaignYet
  /\ subscribed \in SUBSET Contacts
  /\ messages = <<>>
  /\ jobs = <<>>
  /\ enq = [p \in Procs |-> IdleEnq]
  /\ now = 0
  /\ provider = [c \in Contacts |-> 0]
  /\ fin = "idle"
  /\ InitApi

NextSchedule ==
  \/ \E r \in Reqs, scheduled \in BOOLEAN : PostCampaign(r, scheduled)
  \/ \E r \in Reqs : RouteStep(r)
  \/ \E r \in Reqs : SchedRemoveFails(r)
  \/ SchedFire(Caller)
  \/ CalledEnqueueStep(Caller)

SpecSchedule == InitSchedule /\ [][NextSchedule]_vars

\* No request and no enqueueCampaign call is under way.
Quiet ==
  /\ \A r \in Reqs : req[r].pc \in {"idle", "done"}
  /\ \A p \in Procs : CallerFree(p)

\* C35: between requests, a campaign in status scheduled has its delayed job
\* campaign:schedule:<id> in the scheduler queue, and a draft or deleted
\* campaign has none.
ScheduledHasItsJob ==
  Quiet =>
    /\ campaign.status = "scheduled" => ScheduleJobId \in sched
    /\ campaign.status \in {"draft", Deleted} => ScheduleJobId \notin sched


\* The last request has unscheduled the campaign, or the campaign is deleted.
Orphaned ==
  \/ campaign.status = Deleted
  \/ /\ campaign.status = "draft"
     /\ campaign.scheduledAt = None
     /\ \E r \in Reqs : /\ req[r].route = "PUT" /\ req[r].body = "unschedule"
                        /\ req[r].pc = "done" /\ req[r].resp = 200

\* C36: the enqueueCampaign call of a scheduler job that fires on a deleted
\* or unscheduled campaign changes no campaign, wallet, ledger, message or
\* dispatch queue state in its read and its status lock.
OrphanedJobIsNoOp ==
  [][\A p \in Procs :
       (Orphaned /\ enq[p].pc \in {"call", "lock"} /\ enq'[p] # enq[p])
         => UNCHANGED <<campaign, wallet, ledger, messages, jobs>>]_vars


\* finalizeCampaignIfDone, as GET /campaigns/:id/status calls it for any
\* campaign of the owner, next to enqueueCampaign.
NextFinalize ==
  \/ FinCount
  \/ FinUpdate
  \/ \E p \in Procs : EnqueueStep(p)

SpecFinalize == InitEnqueue /\ [][NextFinalize]_vars

\* C37: the update of finalizeCampaignIfDone changes status and finishedAt
\* only of a campaign that is in sending.
FinalizeOnlyFromSending ==
  [][FinUpdate =>
       \/ campaign.status = "sending"
       \/ /\ campaign'.status = campaign.status
          /\ campaign'.finishedAt = campaign.finishedAt]_vars


\* A step of the worker on a job it holds or can take (anything but its
\* stopping in mid-job).
WorkerProgress ==
  \E j \in 1 .. Len(jobs) :
    \/ WorkerSend(j)
    \/ WorkerRecord(j)
    \/ \E status \in ErrStatuses : WorkerFail(j, status)
    \/ WorkerRefund(j)
    \/ WorkerRefundFails(j)
    \/ WorkerCount(j)
    \/ WorkerComplete(j)

\* The dispatch pipeline with a worker that keeps working: a job it can
\* take or go on with is eventually taken or gone on with. The status
\* endpoint (FinCount, FinUpdate) may be called, but need not be.
SpecFair == Init /\ [][Next]_vars /\ WF_vars(WorkerProgress)

\* Every message of the campaign has a delivered or failed outcome.
AllTerminal ==
  \A i \in 1 .. Len(messages) : messages[i].status \in {"delivered", "failed"}

\* C38: with a worker that keeps working, a campaign whose messages all end
\* up delivered or failed, and stay so, is eventually completed.
TerminalCampaignCompletes ==
  (<>[]AllTerminal) => <>(campaign.status = "completed")


\* C39: POST /tracking/redeem gives the same answer, 200 with status
\* not_found_or_forbidden, for a trackingId no message has and for one of
\* another owner's message, and ends there; no Redemption is ever created by
\* a user for a message that is not theirs.
RedeemHidesOtherTenants ==
  [][/\ \A r \in Reqs, user \in Owners, tid \in TrackingIds :
          (RedeemRead(r, user, tid)
             /\ (tid \notin 1 .. Len(messages) \/ MessageOwner(tid) # user))
            => /\ req'[r].pc = "done"
               /\ req'[r].resp = 200
               /\ req'[r].answer = "not_found_or_forbidden"
               /\ redemption' = redemption
     /\ \A i \in 1 .. Len(redemption') :
          redemption'[i].redeemedByUserId # Null
            => redemption'[i].redeemedByUserId = MessageOwner(redemption'[i].messageId)]_vars

\* A user has asked to redeem an existing message of another owner and got
\* the answer for an unknown trackingId.
RedeemHidesWitness ==
  \E r \in Reqs :
    /\ req[r].route = "REDEEM" /\ req[r].pc = "done"
    /\ req[r].body \in 1 .. Len(messages)
    /\ req[r].user # MessageOwner(req[r].body)
    /\ req[r].resp = 200 /\ req[r].answer = "not_found_or_forbidden"

====
